---- MODULE Spec2Model ----
(***************************************************************************)
(* Model of the code runner service (app.py): the API-key dependency, the  *)
(* /run and /test handlers, the per-request workspace directory, the       *)
(* subprocess executor _run_cmd and the output limiter _limit.             *)
(*                                                                         *)
(* Text (str and bytes) is modelled run-length encoded: a text is a        *)
(* sequence of <<character, count>> runs, counts > 0, adjacent runs of     *)
(* different characters, so texts of 100,000 characters stay small and     *)
(* equality of texts is equality of their encodings.                       *)
(***************************************************************************)
EXTENDS Integers, Sequences, FiniteSets, TLC

\* ---------------------------------------------------------------- bounds
\* Number of request slots handled concurrently.
NumReq == 2
\* Number of random suffixes tempfile.mkdtemp can draw for one prefix.
NumSuffix == 2
\* How many characters beyond a ceiling the enumerated texts reach.
MaxOver == 2

\* ------------------------------------------------------ program constants
MAX_CODE_CHARS == 20000
TIMEOUT_SEC_DEFAULT == 5
OUTPUT_LIMIT == 100000
API_KEY_ENV == "RUNNER_API_KEY"

\* ------------------------------------------------------------------ text
\* Python's None where a str or bytes is expected: no text has a run of 0.
None == << <<"None", 0>> >>
\* Python's None where an int is expected (timeout_sec is >= 1 otherwise).
NoneInt == 0 - 1

\* c repeated n times.
Rep(c, n) == IF n <= 0 THEN <<>> ELSE << <<c, n>> >>

\* s + t
Cat(s, t) ==
  IF s = <<>> THEN t
  ELSE IF t = <<>> THEN s
  ELSE IF s[Len(s)][1] = t[1][1]
       THEN SubSeq(s, 1, Len(s) - 1)
            \o << <<t[1][1], s[Len(s)][2] + t[1][2]>> >>
            \o Tail(t)
       ELSE s \o t

\* len(s)
RECURSIVE StrLen(_)
StrLen(s) == IF s = <<>> THEN 0 ELSE s[1][2] + StrLen(Tail(s))

\* s[:n]
RECURSIVE Take(_, _)
Take(s, n) ==
  IF n <= 0 \/ s = <<>> THEN <<>>
  ELSE IF s[1][2] <= n THEN Cat(<<s[1]>>, Take(Tail(s), n - s[1][2]))
  ELSE << <<s[1][1], n>> >>

\* s[n:]
RECURSIVE Drop(_, _)
Drop(s, n) ==
  IF s = <<>> THEN <<>>
  ELSE IF n <= 0 THEN s
  ELSE IF s[1][2] <= n THEN Drop(Tail(s), n - s[1][2])
  ELSE << <<s[1][1], s[1][2] - n>> >> \o Tail(s)

\* A literal, from its characters.
RECURSIVE Lit(_)
Lit(cs) == IF cs = <<>> THEN <<>> ELSE Cat(Rep(cs[1], 1), Lit(Tail(cs)))

\* s.startswith(p)
StartsWith(s, p) == Take(s, StrLen(p)) = p

\* The characters of a text, as a set.
Chars(s) == {s[i][1] : i \in 1..Len(s)}

\* A lone surrogate: a str character UTF-8 cannot encode.
Surrogate == "\\ud800"
\* A byte that is not valid UTF-8, and the character decode puts in its place.
BadByte == "\\xff"
Replacement == "\\ufffd"

EncodeError == << <<"UnicodeEncodeError", 0>> >>

\* str.encode(): UTF-8, strict; ASCII characters are their own bytes.
Encode(s) == IF Surrogate \in Chars(s) THEN EncodeError ELSE s

\* bytes.decode(errors="replace")
RECURSIVE Decode(_)
Decode(b) ==
  IF b = <<>> THEN <<>>
  ELSE Cat(<< <<IF b[1][1] = BadByte THEN Replacement ELSE b[1][1], b[1][2]>> >>,
           Decode(Tail(b)))

\* "\n...[truncated]..."
TruncMarker == Lit(<<"\n", ".", ".", ".", "[", "t", "r", "u", "n", "c", "a", "t", "e", "d", "]", ".", ".", ".">>)
TIMEOUT == Lit(<<"T", "I", "M", "E", "O", "U", "T">>)
ErrorPrefix == Lit(<<"E", "R", "R", "O", "R", ":", " ">>)

\* _limit with the test of its second line negated wrongly: '<' for '<='.
LimitStrict(s, n) ==
  IF s = None THEN <<>>
  ELSE IF StrLen(s) < n THEN s ELSE Cat(Take(s, n), TruncMarker)

\* _limit(s, n)
Limit(s, n) ==
  IF s = None THEN <<>>
  ELSE IF StrLen(s) <= n THEN s ELSE Cat(Take(s, n), TruncMarker)


\* ----------------------------------------------------------- environment
ProxyVars == {"HTTP_PROXY", "HTTPS_PROXY", "http_proxy", "https_proxy"}

\* os.getenv(name, default) on the mapping env
getenv(env, name, default) == IF name \in DOMAIN env THEN env[name] ELSE default

\* os.environ after _run_cmd built env: the pops act on the copy.
EnvironAfterRunCmd(env) == env

\* The env with only the upper-case proxy variables popped.
ChildEnvUpperOnly(env) ==
  [k \in (DOMAIN env) \ {"HTTP_PROXY", "HTTPS_PROXY"} |-> env[k]]

\* _run_cmd's env: a copy of os.environ without the proxy variables
ChildEnv(env) == [k \in (DOMAIN env) \ ProxyVars |-> env[k]]

Key(c) == Rep(c, 1)
NoVars == [k \in {} |-> <<>>]

\* A server environment: the secret unset, empty or set, with or without a proxy.
EnvOf(secret, proxy) ==
  [k \in (IF secret = None THEN {} ELSE {API_KEY_ENV})
         \cup (IF proxy THEN ProxyVars ELSE {})
         \cup {"PATH", "NO_PROXY"}
     |-> IF k = API_KEY_ENV THEN secret ELSE Key("p")]

\* ---------------------------------------------------------------- security
\* require_api_key with the two tests in one: an empty secret is compared like
\* any other, so an empty header passes an unconfigured server.
RequireApiKeyNoConfigCheck(x_api_key, env) ==
  LET expected == getenv(env, API_KEY_ENV, <<>>)
  IN  IF x_api_key # expected THEN 401 ELSE 0

\* A route without the dependency: every request enters the handler.
RequireApiKeyAcceptAll(x_api_key, env) == 0

\* require_api_key: the status of the HTTPException it raises, 0 when it returns.
RequireApiKey(x_api_key, env) ==
  LET expected == getenv(env, API_KEY_ENV, <<>>)
  IN  IF expected = <<>> THEN 503
      ELSE IF x_api_key # expected THEN 401
      ELSE 0

\* ------------------------------------------------------------------ state
VARIABLES
  environ,   \* os.environ of the server process
  pc,        \* pc[r]: where request r is in its handler
  req,       \* req[r]: the request (header and body fields)
  work,      \* work[r]: the handler's local 'work', the path mkdtemp returned
  proc,      \* proc[r]: the subprocess subprocess.run started for r, with
             \* the files it found in its working directory
  resp,      \* resp[r]: the response (pending in 'finally', sent when done)
  disk,      \* the temporary directory: path -> the files in it
  log        \* log[r]: how often r called _run_cmd, started a subprocess and
             \* called shutil.rmtree, whether the removal succeeded, and
             \* which staging call raised, if any

vars == <<environ, pc, req, work, proc, resp, disk, log>>

Reqs == 1..NumReq
Suffixes == 1..NumSuffix

NoReq == [kind |-> "none", x_api_key |-> None, code |-> <<>>, tests |-> <<>>, stdin |-> None, timeout_sec |-> NoneInt]
NoWork == <<"", 0>>
NoFiles == [f \in {} |-> <<>>]
NoOutcome == [kind |-> "none", rc |-> 0, stdout |-> None, stderr |-> None, msg |-> <<>>]
NoProc == [state |-> "none", cmd |-> <<>>, cwd |-> NoWork, files |-> NoFiles, input |-> <<>>, env |-> NoVars, timeout |-> 0, elapsed |-> 0, outcome |-> NoOutcome]
NoResp == [status |-> 0, body |-> "none"]
NoLog == [runs |-> 0, started |-> 0, rmtrees |-> 0, removed |-> FALSE, fault |-> "none"]

\* raise HTTPException(status_code, detail); an uncaught exception is a 500.
HTTPException(status, detail) == [status |-> status, body |-> detail]
InternalError == HTTPException(500, "Internal Server Error")

\* x or d, for an Optional[int]
\* The timeout handed on as the request carries it, without the default.
OrIntUnset(x, d) == x

OrInt(x, d) == IF x = NoneInt \/ x = 0 THEN d ELSE x
\* s or "", for an Optional[str] (and e.stdout or b"")
OrEmpty(s) == IF s = None THEN <<>> ELSE s


\* ------------------------------------------------------ what a subprocess does
\* proc.returncode, proc.stdout, proc.stderr of a subprocess that exited.
Exited(rc, out, err) == [kind |-> "exit", rc |-> rc, stdout |-> out, stderr |-> err, msg |-> <<>>]
\* subprocess.TimeoutExpired: e.stdout and e.stderr are what was read before the
\* kill, or None.
TimeoutExpired(out, err) == [kind |-> "timeout", rc |-> 0, stdout |-> out, stderr |-> err, msg |-> <<>>]
\* Any other exception of subprocess.run, with its str().
Raised(msg) == [kind |-> "error", rc |-> 0, stdout |-> None, stderr |-> None, msg |-> msg]

\* _run_cmd without its last handler: an exception other than TimeoutExpired
\* is not caught and reaches the handler as no result at all.
RunCmdUncaught(o) ==
  IF o.kind = "exit" THEN <<o.rc, Decode(o.stdout), Decode(o.stderr)>>
  ELSE IF o.kind = "timeout" THEN <<124, Decode(OrEmpty(o.stdout)), TIMEOUT>>
  ELSE <<>>

\* _run_cmd keeping the stderr read before the kill instead of the marker.
RunCmdKeepStderr(o) ==
  IF o.kind = "exit" THEN <<o.rc, Decode(o.stdout), Decode(o.stderr)>>
  ELSE IF o.kind = "timeout" THEN <<124, Decode(OrEmpty(o.stdout)), Decode(OrEmpty(o.stderr))>>
  ELSE <<1, <<>>, Cat(ErrorPrefix, o.msg)>>

\* _run_cmd's try statement: (rc, out, err) for what subprocess.run did.
RunCmd(o) ==
  IF o.kind = "exit" THEN <<o.rc, Decode(o.stdout), Decode(o.stderr)>>
  ELSE IF o.kind = "timeout" THEN <<124, Decode(OrEmpty(o.stdout)), TIMEOUT>>
  ELSE <<1, <<>>, Cat(ErrorPrefix, o.msg)>>

\* RunResponse with ok computed from the absence of stderr output.
RunResponseOkByStderr(res) ==
  [status |-> 200,
   body |-> [ok |-> (res[3] = <<>>),
             stdout |-> Limit(res[2], OUTPUT_LIMIT),
             stderr |-> Limit(res[3], OUTPUT_LIMIT),
             exit_code |-> res[1]]]

\* run_code's return statement
RunResponse(res) ==
  [status |-> 200,
   body |-> [ok |-> (res[1] = 0),
             stdout |-> Limit(res[2], OUTPUT_LIMIT),
             stderr |-> Limit(res[3], OUTPUT_LIMIT),
             exit_code |-> res[1]]]

\* run_tests' summary, counting only a real failure of the tests as failed.
SummaryExitOne(rc) == IF rc = 1 THEN "tests failed" ELSE "tests passed"

\* run_tests' summary
Summary(rc) == IF rc = 0 THEN "tests passed" ELSE "tests failed"

\* run_tests' return statement
TestResponse(res) ==
  [status |-> 200,
   body |-> [ok |-> (res[1] = 0),
             summary |-> Summary(res[1]),
             stdout |-> Limit(res[2], OUTPUT_LIMIT),
             stderr |-> Limit(res[3], OUTPUT_LIMIT),
             exit_code |-> res[1]]]

\* The response a handler builds from _run_cmd's result; an exception
\* _run_cmd let through is an internal error.
Response(kind, res) ==
  IF res = <<>> THEN InternalError
  ELSE IF kind = "run" THEN RunResponse(res) ELSE TestResponse(res)


\* ---------------------------------------------------------------- handlers
\* The size test of the handlers with '>=' for '>'.
TooLargeAtCeiling(q) ==
  IF q.kind = "run" THEN StrLen(q.code) >= MAX_CODE_CHARS
  ELSE StrLen(q.code) >= MAX_CODE_CHARS \/ StrLen(q.tests) >= MAX_CODE_CHARS

\* The first statement of run_code and of run_tests.
TooLarge(q) ==
  IF q.kind = "run" THEN StrLen(q.code) > MAX_CODE_CHARS
  ELSE StrLen(q.code) > MAX_CODE_CHARS \/ StrLen(q.tests) > MAX_CODE_CHARS

TooLargeDetail(q) == IF q.kind = "run" THEN "Code too large" ELSE "Code or tests too large"

\* The prefix each handler gives mkdtemp.
Prefix(q) == IF q.kind = "run" THEN "run-" ELSE "test-"

\* mkdtemp taking any name, whether or not the directory exists already.
MkdtempAnyName(prefix, d) == {<<prefix, x>> : x \in Suffixes}

\* tempfile.mkdtemp(prefix=...): the paths it can return, those that do not
\* exist yet (it creates the directory exclusively and draws again otherwise).
Mkdtemp(prefix, d) == {<<prefix, x>> : x \in Suffixes} \ DOMAIN d

\* os.mkdir(w): the directory w, empty.
MkDir(d, w) == [p \in (DOMAIN d) \cup {w} |-> IF p = w THEN NoFiles ELSE d[p]]

\* open(os.path.join(w, name), "w") followed by f.write(text).
WriteFile(d, w, name, text) ==
  [d EXCEPT ![w] = [f \in (DOMAIN d[w]) \cup {name} |-> IF f = name THEN text ELSE d[w][f]]]

\* rmtree that removes nothing and reports success.
RmTreeNothing(d, w) == d

\* shutil.rmtree(w)
RmTree(d, w) == [p \in (DOMAIN d) \ {w} |-> d[p]]

\* The files each handler stages, in the order it writes them.
StagedFiles(q) ==
  IF q.kind = "run" THEN << <<"main.py", q.code>> >>
  ELSE << <<"solution.py", q.code>>, <<"test_solution.py", q.tests>> >>

\* The command each handler passes to _run_cmd.
Cmd(q) ==
  IF q.kind = "run" THEN <<"python", "main.py">>
  ELSE <<"pytest", "-q", "--maxfail=1", "--disable-warnings">>

\* The input with the request's stdin handed on in both modes.
InputStrBothModes(q) == OrEmpty(q.stdin)

\* The input_str of the handler's _run_cmd call: run_tests passes none.
InputStr(q) == IF q.kind = "run" THEN OrEmpty(q.stdin) ELSE <<>>

\* str() of the UnicodeEncodeError of input_str.encode(), abridged.
EncodeErrorMsg == Lit(<<"u", "t", "f", "-", "8">>)


\* ------------------------------------------------------------------ actions
InitWith(Environs) ==
  /\ environ \in Environs
  /\ pc = [r \in Reqs |-> "idle"]
  /\ req = [r \in Reqs |-> NoReq]
  /\ work = [r \in Reqs |-> NoWork]
  /\ proc = [r \in Reqs |-> NoProc]
  /\ resp = [r \in Reqs |-> NoResp]
  /\ disk = [p \in {} |-> NoFiles]
  /\ log = [r \in Reqs |-> NoLog]

\* A request arrives. /ping is answered at once; for /run and /test the
\* dependency require_api_key runs before the handler is entered.
Request(r, Requests) ==
  /\ pc[r] = "idle"
  /\ \E q \in Requests :
       /\ req' = [req EXCEPT ![r] = q]
       /\ IF q.kind = "ping"
          THEN /\ pc' = [pc EXCEPT ![r] = "done"]
               /\ resp' = [resp EXCEPT ![r] = [status |-> 200, body |-> "pong"]]
          ELSE LET st == RequireApiKey(q.x_api_key, environ)
               IN  IF st = 0
                   THEN /\ pc' = [pc EXCEPT ![r] = "handler"]
                        /\ resp' = resp
                   ELSE /\ pc' = [pc EXCEPT ![r] = "done"]
                        /\ resp' = [resp EXCEPT ![r] =
                             HTTPException(st, IF st = 503 THEN "API not configured"
                                                ELSE "Invalid or missing API key")]
  /\ UNCHANGED <<environ, work, proc, disk, log>>

\* run_code / run_tests up to the try statement: the size test, then mkdtemp.
Enter(r) ==
  /\ pc[r] = "handler"
  /\ IF TooLarge(req[r])
     THEN /\ pc' = [pc EXCEPT ![r] = "done"]
          /\ resp' = [resp EXCEPT ![r] = HTTPException(413, TooLargeDetail(req[r]))]
          /\ UNCHANGED <<work, disk, log>>
     ELSE \/ \E w \in Mkdtemp(Prefix(req[r]), disk) :
               /\ work' = [work EXCEPT ![r] = w]
               /\ disk' = MkDir(disk, w)
               /\ pc' = [pc EXCEPT ![r] = "write1"]
               /\ UNCHANGED <<resp, log>>
          \/ \* mkdtemp raises (no usable name, no space, no permission)
             /\ pc' = [pc EXCEPT ![r] = "done"]
             /\ resp' = [resp EXCEPT ![r] = InternalError]
             /\ log' = [log EXCEPT ![r].fault = "mkdtemp"]
             /\ UNCHANGED <<work, disk>>
  /\ UNCHANGED <<environ, req, proc>>

\* The staging step with its exceptions swallowed: the handler goes on to the
\* next statement after a failed open or write.
WriteIgnoringErrors(r) ==
  /\ pc[r] \in {"write1", "write2"}
  /\ LET files == StagedFiles(req[r])
         i == IF pc[r] = "write1" THEN 1 ELSE 2
         name == files[i][1]
         text == files[i][2]
     IN  /\ pc' = [pc EXCEPT ![r] = IF i < Len(files) THEN "write2" ELSE "launch"]
         /\ resp' = resp
         /\ \/ /\ work[r] \in DOMAIN disk
               /\ Encode(text) # EncodeError
               /\ disk' = WriteFile(disk, work[r], name, text)
               /\ log' = log
            \/ /\ disk' = disk
               /\ log' = [log EXCEPT ![r].fault = "open"]
            \/ /\ work[r] \in DOMAIN disk
               /\ disk' = WriteFile(disk, work[r], name, <<>>)
               /\ log' = [log EXCEPT ![r].fault = "write"]
  /\ UNCHANGED <<environ, req, work, proc>>

\* One 'with open(...) as f: f.write(...)' of the try body.
Write(r) ==
  /\ pc[r] \in {"write1", "write2"}
  /\ LET files == StagedFiles(req[r])
         i == IF pc[r] = "write1" THEN 1 ELSE 2
         name == files[i][1]
         text == files[i][2]
     IN  \/ /\ work[r] \in DOMAIN disk
            /\ Encode(text) # EncodeError
            /\ disk' = WriteFile(disk, work[r], name, text)
            /\ pc' = [pc EXCEPT ![r] = IF i < Len(files) THEN "write2" ELSE "launch"]
            /\ UNCHANGED <<resp, log>>
         \/ \* open raises: nothing is created
            /\ disk' = disk
            /\ pc' = [pc EXCEPT ![r] = "finally"]
            /\ resp' = [resp EXCEPT ![r] = InternalError]
            /\ log' = [log EXCEPT ![r].fault = "open"]
         \/ \* f.write raises (UnicodeEncodeError, OSError): the file is left empty
            /\ work[r] \in DOMAIN disk
            /\ disk' = WriteFile(disk, work[r], name, <<>>)
            /\ pc' = [pc EXCEPT ![r] = "finally"]
            /\ resp' = [resp EXCEPT ![r] = InternalError]
            /\ log' = [log EXCEPT ![r].fault = "write"]
  /\ UNCHANGED <<environ, req, work, proc>>

\* _run_cmd up to the start of the subprocess: the environment, the encoded
\* input, Popen. A failure here is subprocess.run raising at once.
Launch(r, Errors) ==
  /\ pc[r] = "launch"
  /\ LET q == req[r]
         input == Encode(OrEmpty(InputStr(q)))
         p == [state |-> "running", cmd |-> Cmd(q), cwd |-> work[r],
               files |-> disk[work[r]],
               input |-> input, env |-> ChildEnv(environ),
               timeout |-> OrInt(q.timeout_sec, TIMEOUT_SEC_DEFAULT),
               elapsed |-> 0, outcome |-> NoOutcome]
         Fail(o) ==
            /\ proc' = [proc EXCEPT ![r] = [NoProc EXCEPT !.state = "failed", !.outcome = o]]
            /\ resp' = [resp EXCEPT ![r] = Response(q.kind, RunCmd(o))]
            /\ pc' = [pc EXCEPT ![r] = "finally"]
            /\ log' = [log EXCEPT ![r].runs = @ + 1]
     IN  \/ /\ input = EncodeError
            /\ Fail(Raised(EncodeErrorMsg))
         \/ /\ input # EncodeError
            /\ \E m \in Errors : Fail(Raised(m))
         \/ /\ input # EncodeError
            /\ work[r] \in DOMAIN disk
            /\ proc' = [proc EXCEPT ![r] = p]
            /\ pc' = [pc EXCEPT ![r] = "running"]
            /\ resp' = resp
            /\ log' = [log EXCEPT ![r].runs = @ + 1, ![r].started = @ + 1]
  /\ environ' = EnvironAfterRunCmd(environ)
  /\ UNCHANGED <<req, work, disk>>

\* One second passes for the subprocess of r.
Tick(r) ==
  /\ pc[r] = "running"
  /\ proc[r].timeout # NoneInt
  /\ proc[r].elapsed < proc[r].timeout
  /\ proc' = [proc EXCEPT ![r].elapsed = @ + 1]
  /\ UNCHANGED <<environ, pc, req, work, resp, disk, log>>

\* The return with a retry: a run that did not end with exit code 0 is
\* launched once more instead of being reported.
FinishWithRetry(r, st, o) ==
  /\ IF RunCmd(o)[1] = 0
       THEN /\ proc' = [proc EXCEPT ![r].state = st, ![r].outcome = o]
            /\ resp' = [resp EXCEPT ![r] = Response(req[r].kind, RunCmd(o))]
            /\ pc' = [pc EXCEPT ![r] = "finally"]
       ELSE /\ proc' = [proc EXCEPT ![r] = NoProc]
            /\ resp' = resp
            /\ pc' = [pc EXCEPT ![r] = "launch"]
  /\ UNCHANGED <<environ, req, work, disk, log>>

\* The handler's return statement after _run_cmd returned for outcome o.
Finish(r, st, o) ==
  /\ proc' = [proc EXCEPT ![r].state = st, ![r].outcome = o]
  /\ resp' = [resp EXCEPT ![r] = Response(req[r].kind, RunCmd(o))]
  /\ pc' = [pc EXCEPT ![r] = "finally"]
  /\ UNCHANGED <<environ, req, work, disk, log>>

\* The subprocess exits by itself before the deadline (subprocess.run has no
\* deadline when its timeout is None).
Exit(r, Exits) ==
  /\ pc[r] = "running"
  /\ proc[r].timeout = NoneInt \/ proc[r].elapsed < proc[r].timeout
  /\ \E o \in Exits : Finish(r, "exited", o)

\* The deadline passes: subprocess.run kills the subprocess and raises
\* TimeoutExpired with what it had read of each stream, None when nothing.
Expire(r, Partials) ==
  /\ pc[r] = "running"
  /\ proc[r].elapsed = proc[r].timeout
  /\ \E out \in Partials \cup {None}, err \in Partials \cup {None} :
       Finish(r, "killed", TimeoutExpired(out, err))

\* The removal without ignore_errors: a failed removal raises out of the
\* finally block and replaces the response.
CleanupRaising(r, mayFail) ==
  /\ pc[r] = "finally"
  /\ \/ /\ disk' = RmTree(disk, work[r])
        /\ log' = [log EXCEPT ![r].rmtrees = @ + 1, ![r].removed = TRUE]
        /\ resp' = resp
     \/ /\ mayFail
        /\ disk' = disk
        /\ log' = [log EXCEPT ![r].rmtrees = @ + 1]
        /\ resp' = [resp EXCEPT ![r] = InternalError]
  /\ pc' = [pc EXCEPT ![r] = "done"]
  /\ UNCHANGED <<environ, req, work, proc>>

\* The removal without the wait for the subprocess: the handler reaches its
\* finally block while the subprocess it started still runs.
CleanupWithoutWait(r, mayFail) ==
  /\ pc[r] \in {"running", "finally"}
  /\ \/ /\ disk' = RmTree(disk, work[r])
        /\ log' = [log EXCEPT ![r].rmtrees = @ + 1, ![r].removed = TRUE]
     \/ /\ mayFail
        /\ disk' = disk
        /\ log' = [log EXCEPT ![r].rmtrees = @ + 1]
  /\ pc' = [pc EXCEPT ![r] = "done"]
  /\ UNCHANGED <<environ, req, work, proc, resp>>

\* finally: shutil.rmtree(work, ignore_errors=True), then the handler returns.
\* With mayFail the removal may fail, which ignore_errors hides.
Cleanup(r, mayFail) ==
  /\ pc[r] = "finally"
  /\ \/ /\ disk' = RmTree(disk, work[r])
        /\ log' = [log EXCEPT ![r].rmtrees = @ + 1, ![r].removed = TRUE]
     \/ \* the removal fails and the error is ignored
        /\ mayFail
        /\ disk' = disk
        /\ log' = [log EXCEPT ![r].rmtrees = @ + 1]
  /\ pc' = [pc EXCEPT ![r] = "done"]
  /\ UNCHANGED <<environ, req, work, proc, resp>>

\* The response is sent; the slot serves the next request.
Recycle(r) ==
  /\ pc[r] = "done"
  /\ pc' = [pc EXCEPT ![r] = "idle"]
  /\ req' = [req EXCEPT ![r] = NoReq]
  /\ work' = [work EXCEPT ![r] = NoWork]
  /\ proc' = [proc EXCEPT ![r] = NoProc]
  /\ resp' = [resp EXCEPT ![r] = NoResp]
  /\ log' = [log EXCEPT ![r] = NoLog]
  /\ UNCHANGED <<environ, disk>>


\* ------------------------------------------------------------------- inputs
\* Inputs of the specification of concurrent requests: one short text each.
SmallEnvirons == {EnvOf(Key("k"), TRUE)}
SmallRequests ==
  {[kind |-> "run", x_api_key |-> Key("k"), code |-> c, tests |-> <<>>,
    stdin |-> None, timeout_sec |-> 1] : c \in {Key("a"), Key("c")}}
  \cup
  {[kind |-> "test", x_api_key |-> Key("k"), code |-> Key("a"), tests |-> Key("b"),
    stdin |-> None, timeout_sec |-> 1]}
SmallErrors == {Key("E")}
SmallExits == {Exited(0, <<>>, <<>>)}
SmallPartials == {}

\* Inputs of the specification of one request: texts around the ceilings.
Environs == {EnvOf(x, p) : x \in {None, <<>>, Key("k")}, p \in BOOLEAN}
Headers == {None, <<>>, Key("k"), Key("x")}
CodeTexts ==
  {Rep("a", n) : n \in (MAX_CODE_CHARS - MaxOver)..(MAX_CODE_CHARS + MaxOver)}
    \cup {Key("a"), Lit(<<"a", Surrogate>>)}
Stdins == {None, <<>>, Key("i"), Key(Surrogate)}
Timeouts == {NoneInt, 1, 2}
Requests ==
  {[kind |-> "run", x_api_key |-> h, code |-> c, tests |-> <<>>, stdin |-> i, timeout_sec |-> 1] :
     h \in Headers, c \in CodeTexts, i \in Stdins}
  \cup
  {[kind |-> "test", x_api_key |-> h, code |-> c, tests |-> u, stdin |-> None, timeout_sec |-> 1] :
     h \in Headers, c \in CodeTexts, u \in CodeTexts}
  \cup
  {[kind |-> k, x_api_key |-> Key("k"), code |-> Key("a"), tests |-> Key("b"), stdin |-> i, timeout_sec |-> t] :
     k \in {"run", "test"}, i \in {None, Key("i")}, t \in Timeouts}
  \cup
  {[kind |-> "ping", x_api_key |-> h, code |-> <<>>, tests |-> <<>>, stdin |-> None, timeout_sec |-> NoneInt] :
     h \in {None, Key("x")}}
Errors == {Lit(<<"E", "N", "O", "E", "N", "T">>), Rep("E", OUTPUT_LIMIT)}
ExitCodes == {0, 1, 2, 124, 0 - 9}
Outputs ==
  {Cat(Rep("a", OUTPUT_LIMIT - 1), Rep("b", m)) : m \in 0..MaxOver}
    \cup {<<>>, Lit(<<"o", BadByte>>), Rep("\n", OUTPUT_LIMIT + 1)}
Exits ==
  {Exited(rc, <<>>, <<>>) : rc \in ExitCodes}
    \cup {Exited(rc, out, err) : rc \in {0, 1}, out \in Outputs, err \in Outputs}

\* ----------------------------------------------------------- specifications
Init == InitWith(SmallEnvirons)

Next ==
  \E r \in Reqs :
    \/ Request(r, SmallRequests)
    \/ Enter(r)
    \/ Write(r)
    \/ Launch(r, SmallErrors)
    \/ Tick(r)
    \/ Exit(r, SmallExits)
    \/ Expire(r, SmallPartials)
    \/ Cleanup(r, FALSE)
    \/ Recycle(r)

\* Concurrent requests, with short texts and removals that succeed: a
\* directory left behind only takes a name out of mkdtemp's pool for good.
Spec == Init /\ [][Next]_vars

InitData == InitWith(Environs)

NextData ==
  \/ Request(1, Requests)
  \/ Enter(1)
  \/ Write(1)
  \/ Launch(1, Errors)
  \/ Tick(1)
  \/ Exit(1, Exits)
  \/ Expire(1, Outputs)
  \/ Cleanup(1, TRUE)

\* One request, with texts around the ceilings and removals that may fail.
SpecData == InitData /\ [][NextData]_vars

\* One request followed to its response, with and without a timeout of its
\* own.
LiveRequests ==
  {[kind |-> k, x_api_key |-> Key("k"), code |-> Key("a"), tests |-> Key("b"),
    stdin |-> None, timeout_sec |-> t] :
     k \in {"run", "test"}, t \in {NoneInt, 1}}

NextLive ==
  \/ Request(1, LiveRequests)
  \/ Enter(1)
  \/ Write(1)
  \/ Launch(1, SmallErrors)
  \/ Tick(1)
  \/ Exit(1, SmallExits)
  \/ Expire(1, SmallPartials)
  \/ Cleanup(1, TRUE)

\* The handler runs in a worker thread that executes one statement after the
\* other, and the clock advances: every step of the handler and of
\* subprocess.run's wait is taken once it stays possible. Nothing makes a
\* client send a request or a subprocess exit by itself.
Fairness ==
  /\ WF_vars(Enter(1))
  /\ WF_vars(Write(1))
  /\ WF_vars(Launch(1, SmallErrors))
  /\ WF_vars(Tick(1))
  /\ WF_vars(Expire(1, SmallPartials))
  /\ WF_vars(Cleanup(1, TRUE))

SpecLive == Init /\ [][NextLive]_vars /\ Fairness


\* ------------------------------------------------------------------- claims
\* r is a /run or /test request.
Handled(r) == req[r].kind \in {"run", "test"}
\* The handler of r (or the dependency before it) has returned or raised.
Returned(r) == pc[r] = "done"
\* r has a RunResponse or TestResponse, about to be returned or returned.
HasResult(r) == Handled(r) /\ pc[r] \in {"finally", "done"} /\ resp[r].status = 200
\* t is s bounded to 100,000 characters: s itself, or its first 100,000
\* characters followed by the 18 characters of the truncation marker.
BoundedAs(s, t) ==
  IF StrLen(s) <= 100000 THEN t = s
  ELSE /\ Take(t, 100000) = Take(s, 100000)
       /\ Drop(t, 100000) = Lit(<<"\n", ".", ".", ".", "[", "t", "r", "u", "n", "c", "a", "t", "e", "d", "]", ".", ".", ".">>)
       /\ StrLen(t) = 100018

\* C1 as stated: once the handler of a request that created a workspace has
\* returned, the workspace directory no longer exists.
C1_Original ==
  \A r \in Reqs :
    (Returned(r) /\ work[r] # NoWork) => work[r] \notin DOMAIN disk

\* C1, amended: once the handler of a request that created a workspace has
\* returned, the removal of the workspace has been attempted exactly once,
\* and the directory no longer exists unless that removal failed.
C1_CleanupAttempted ==
  \A r \in Reqs :
    (Returned(r) /\ work[r] # NoWork) =>
       /\ log[r].rmtrees = 1
       /\ log[r].removed => work[r] \notin DOMAIN disk

\* A request whose staging raised has returned, its workspace removed.
C1_Witness ==
  \E r \in Reqs :
    /\ Returned(r) /\ work[r] # NoWork /\ resp[r].status = 500
    /\ log[r].runs = 0 /\ log[r].removed /\ work[r] \notin DOMAIN disk

\* C2 as stated: a subprocess still running at its deadline is killed, and
\* the result is normal with exit_code 124, stderr "TIMEOUT", ok false and
\* stdout equal to the partial stdout read before the kill.
C2_Original ==
  \A r \in Reqs :
    (pc[r] \in {"finally", "done"} /\ proc[r].state \in {"exited", "killed"}) =>
       /\ (proc[r].elapsed = proc[r].timeout) <=> (proc[r].state = "killed")
       /\ proc[r].state = "killed" =>
            /\ resp[r].status = 200
            /\ resp[r].body.exit_code = 124
            /\ resp[r].body.stderr = Lit(<<"T", "I", "M", "E", "O", "U", "T">>)
            /\ resp[r].body.ok = FALSE
            /\ resp[r].body.stdout = Decode(OrEmpty(proc[r].outcome.stdout))

\* C2, amended: a subprocess still running at its deadline is killed, and the
\* result is normal with exit_code 124, stderr "TIMEOUT", ok false and stdout
\* equal to the partial stdout read before the kill bounded like any other
\* output: cut to 100,000 characters plus the marker when it is longer.
C2_TimeoutResult ==
  \A r \in Reqs :
    (pc[r] \in {"finally", "done"} /\ proc[r].state \in {"exited", "killed"}) =>
       /\ (proc[r].elapsed = proc[r].timeout) <=> (proc[r].state = "killed")
       /\ proc[r].state = "killed" =>
            /\ resp[r].status = 200
            /\ resp[r].body.exit_code = 124
            /\ resp[r].body.stderr = Lit(<<"T", "I", "M", "E", "O", "U", "T">>)
            /\ resp[r].body.ok = FALSE
            /\ BoundedAs(Decode(OrEmpty(proc[r].outcome.stdout)), resp[r].body.stdout)

\* A killed subprocess had written more than 100,000 characters of stdout and
\* some stderr; the result has been returned.
C2_Witness ==
  \E r \in Reqs :
    /\ Returned(r) /\ proc[r].state = "killed"
    /\ proc[r].outcome.stdout # None /\ StrLen(proc[r].outcome.stdout) > 100000
    /\ proc[r].outcome.stderr # None /\ StrLen(proc[r].outcome.stderr) > 0
    /\ resp[r].body.exit_code = 124

\* C3: in every result, ok is true exactly when the subprocess was started,
\* exited by itself before the deadline and with status 0; a timeout, a
\* launch failure and a non-zero exit give ok = false.
C3_OkIffExitZero ==
  \A r \in Reqs :
    HasResult(r) =>
       /\ resp[r].body.ok <=> (proc[r].state = "exited" /\ proc[r].outcome.rc = 0)
       /\ resp[r].body.ok =>
            /\ resp[r].body.exit_code = 0
            /\ log[r].started = 1
            /\ proc[r].elapsed < proc[r].timeout
       /\ proc[r].state \in {"killed", "failed"} => ~resp[r].body.ok

\* A result with ok = true has been returned.
C3_Witness ==
  \E r \in Reqs : Returned(r) /\ HasResult(r) /\ resp[r].body.ok

\* The code or (for /test) the tests of r are longer than 20,000 characters.
Oversized(r) ==
  \/ StrLen(req[r].code) > 20000
  \/ req[r].kind = "test" /\ StrLen(req[r].tests) > 20000

\* C4 as stated: an oversized request is rejected with 413, before any
\* workspace is created and without any subprocess; 20,000 characters pass.
C4_Original ==
  \A r \in Reqs :
    Handled(r) =>
       /\ Oversized(r) =>
            /\ work[r] = NoWork /\ log[r].runs = 0
            /\ Returned(r) => resp[r].status = 413
       /\ (~Oversized(r) /\ Returned(r)) => resp[r].status # 413

\* C4, amended: an oversized request never gets a workspace or a subprocess,
\* and is rejected with 413 when it has passed the API-key check (401 or 503
\* otherwise); texts of up to 20,000 characters are never rejected with 413.
C4_SizeLimit ==
  \A r \in Reqs :
    Handled(r) =>
       /\ Oversized(r) =>
            /\ work[r] = NoWork /\ log[r].runs = 0
            /\ (Returned(r) /\ resp[r].status \notin {401, 503}) => resp[r].status = 413
       /\ (~Oversized(r) /\ Returned(r)) => resp[r].status # 413

\* A /test request with code of 20,000 and tests of 20,001 characters was
\* rejected with 413.
C4_Witness ==
  \E r \in Reqs :
    /\ Returned(r) /\ req[r].kind = "test"
    /\ StrLen(req[r].code) = 20000 /\ StrLen(req[r].tests) = 20001
    /\ resp[r].status = 413 /\ disk = <<>>

\* C5: when subprocess.run raises anything but TimeoutExpired, _run_cmd
\* returns exit code 1, empty stdout and a stderr starting with "ERROR: ",
\* and the request returns a result with ok = false, not an HTTP error.
C5_LaunchFailure ==
  \A r \in Reqs :
    proc[r].state = "failed" =>
       /\ pc[r] \in {"finally", "done"}
       /\ resp[r].status = 200
       /\ resp[r].body.ok = FALSE
       /\ resp[r].body.exit_code = 1
       /\ resp[r].body.stdout = <<>>
       /\ StartsWith(resp[r].body.stderr, Lit(<<"E", "R", "R", "O", "R", ":", " ">>))

\* A request whose stdin could not be encoded has returned its result.
C5_Witness ==
  \E r \in Reqs :
    /\ Returned(r) /\ proc[r].state = "failed"
    /\ req[r].stdin = Key(Surrogate) /\ resp[r].body.exit_code = 1

\* r holds a workspace: mkdtemp has returned and rmtree has not run yet.
InFlight(r) == pc[r] \in {"write1", "write2", "launch", "running", "finally"}

\* C6: no two requests in flight hold the same workspace; the workspace of a
\* request in flight exists and holds only files that request staged; its
\* subprocess runs there, with all its staged files in place.
C6_Isolation ==
  \A r \in Reqs :
    InFlight(r) =>
       /\ \A o \in Reqs \ {r} : InFlight(o) => work[o] # work[r]
       /\ work[r] \in DOMAIN disk
       /\ \A f \in DOMAIN disk[work[r]] :
            \E i \in 1..Len(StagedFiles(req[r])) :
               /\ StagedFiles(req[r])[i][1] = f
               /\ disk[work[r]][f] \in {StagedFiles(req[r])[i][2], <<>>}
       /\ pc[r] = "running" =>
            /\ proc[r].cwd = work[r]
            /\ \A i \in 1..Len(StagedFiles(req[r])) :
                 /\ StagedFiles(req[r])[i][1] \in DOMAIN disk[work[r]]
                 /\ disk[work[r]][StagedFiles(req[r])[i][1]] = StagedFiles(req[r])[i][2]

\* Two /run requests have their subprocesses running at the same time.
C6_Witness ==
  \E r, o \in Reqs :
    /\ r # o /\ pc[r] = "running" /\ pc[o] = "running"
    /\ req[r].kind = "run" /\ req[o].kind = "run"

\* C7: stdout and stderr of every result are each the captured text bounded
\* to 100,000 characters: unchanged up to that length, else the first
\* 100,000 characters and the marker, 100,018 characters in all.
C7_OutputBound ==
  \A r \in Reqs :
    HasResult(r) =>
       /\ BoundedAs(RunCmd(proc[r].outcome)[2], resp[r].body.stdout)
       /\ BoundedAs(RunCmd(proc[r].outcome)[3], resp[r].body.stderr)

\* A result whose stdout was cut and whose stderr, of exactly 100,000
\* characters, was not.
C7_Witness ==
  \E r \in Reqs :
    /\ Returned(r) /\ HasResult(r) /\ proc[r].state = "exited"
    /\ StrLen(proc[r].outcome.stdout) = 100001
    /\ StrLen(resp[r].body.stdout) = 100018
    /\ StrLen(proc[r].outcome.stderr) = 100000
    /\ resp[r].body.stderr = proc[r].outcome.stderr

\* C8 as stated: a result carries exit_code 124 only if the subprocess was
\* killed at its deadline.
C8_SentinelOnlyOnTimeout ==
  \A r \in Reqs :
    (HasResult(r) /\ resp[r].body.exit_code = 124) => proc[r].state = "killed"

\* The secret the server is configured with; empty when unset.
Secret == IF API_KEY_ENV \in DOMAIN environ THEN environ[API_KEY_ENV] ELSE <<>>

\* C9: on /run and /test, a server without a secret answers 503 whatever the
\* header; one with a secret answers 401 to a missing or different header;
\* a request passes only when the secret is not empty and the header equals it.
C9_KeyCheck ==
  \A r \in Reqs :
    Handled(r) =>
       /\ Secret = <<>> => (Returned(r) /\ resp[r].status = 503)
       /\ (Secret # <<>> /\ req[r].x_api_key # Secret) => (Returned(r) /\ resp[r].status = 401)
       /\ (Secret # <<>> /\ req[r].x_api_key = Secret) <=> resp[r].status \notin {401, 503}

\* A server whose secret is set but empty answered 503 to an empty header.
C9_Witness ==
  \E r \in Reqs :
    /\ Handled(r) /\ Returned(r)
    /\ API_KEY_ENV \in DOMAIN environ /\ Secret = <<>>
    /\ req[r].x_api_key = <<>> /\ resp[r].status = 503

\* C10: in every /test result the summary is "tests passed" exactly when
\* exit_code is 0, which is when ok is true, and "tests failed" otherwise.
C10_Summary ==
  \A r \in Reqs :
    (HasResult(r) /\ req[r].kind = "test") =>
       /\ resp[r].body.summary \in {"tests passed", "tests failed"}
       /\ (resp[r].body.summary = "tests passed") <=> (resp[r].body.exit_code = 0)
       /\ (resp[r].body.exit_code = 0) <=> resp[r].body.ok

\* A /test request whose subprocess was killed at the deadline returned
\* "tests failed".
C10_Witness ==
  \E r \in Reqs :
    /\ Returned(r) /\ HasResult(r) /\ req[r].kind = "test"
    /\ proc[r].state = "killed" /\ resp[r].body.summary = "tests failed"

\* C11: a request whose workspace could not be created, or one of whose
\* staged files could not be opened or written, fails with the internal error
\* (status 500) and neither calls _run_cmd nor starts a subprocess.
C11_StagingFailure ==
  \A r \in Reqs :
    log[r].fault # "none" =>
      /\ pc[r] \in {"finally", "done"}
      /\ resp[r] = InternalError
      /\ log[r].runs = 0
      /\ log[r].started = 0
      /\ proc[r] = NoProc
      /\ (log[r].fault = "mkdtemp" <=> work[r] = NoWork)

\* A test request whose second file could not be written has returned, and
\* the removal of its workspace failed.
C11_Witness ==
  \E r \in Reqs :
    /\ Returned(r)
    /\ req[r].kind = "test"
    /\ log[r].fault = "write"
    /\ work[r] \in DOMAIN disk
    /\ DOMAIN disk[work[r]] = {"solution.py", "test_solution.py"}
    /\ disk[work[r]]["test_solution.py"] = <<>>
    /\ resp[r].status = 500

\* What the harness handed the subprocess of r: the command, the files in
\* its working directory, its input, its environment and its deadline.
Given(r) ==
  [cmd |-> proc[r].cmd, files |-> proc[r].files, input |-> proc[r].input,
   env |-> proc[r].env, timeout |-> proc[r].timeout]

\* The same RunSpec: the request's fields apart from the credential.
SameRunSpec(q, u) ==
  /\ q.kind = u.kind /\ q.code = u.code /\ q.tests = u.tests
  /\ q.stdin = u.stdin /\ q.timeout_sec = u.timeout_sec

C13_Returns ==
  \A r \in Reqs :
    (pc[r] \in {"handler", "write1", "write2", "launch", "running", "finally"})
      ~> (/\ pc[r] = "done"
          /\ log[r].runs = 1 => proc[r].state \in {"exited", "killed", "failed"})

\* A request without a timeout of its own has returned after its subprocess
\* ran into the default deadline.
C13_Witness ==
  \E r \in Reqs :
    /\ Returned(r) /\ req[r].timeout_sec = NoneInt
    /\ proc[r].state = "killed" /\ proc[r].elapsed = TIMEOUT_SEC_DEFAULT

\* C14: while the subprocess of a request runs, the request has not called
\* rmtree and its workspace holds every staged file with its text; when the
\* request has called rmtree, its subprocess has exited, was killed, failed to
\* start or was never started.
C14_CleanupAfterSubprocess ==
  \A r \in Reqs :
    /\ proc[r].state = "running" =>
         /\ log[r].rmtrees = 0
         /\ work[r] \in DOMAIN disk
         /\ LET files == StagedFiles(req[r])
            IN  \A i \in 1..Len(files) :
                  /\ files[i][1] \in DOMAIN disk[work[r]]
                  /\ disk[work[r]][files[i][1]] = files[i][2]
    /\ log[r].rmtrees > 0 =>
         proc[r].state \in {"none", "failed", "exited", "killed"}

\* A test request whose subprocess was killed at the deadline has returned
\* and its workspace is gone.
C14_Witness ==
  \E r \in Reqs :
    /\ Returned(r) /\ req[r].kind = "test"
    /\ proc[r].state = "killed"
    /\ log[r].removed /\ work[r] \notin DOMAIN disk

\* A request whose files were all written: it is past the staging step
\* without a staging call having raised.
Staged(r) ==
  /\ pc[r] \in {"running", "finally", "done"}
  /\ work[r] # NoWork
  /\ log[r].fault = "none"

\* C15: a request calls _run_cmd at most once and starts at most one
\* subprocess; a request whose files were all written has called it exactly
\* once, whatever the outcome; and the response built from that one outcome
\* is the response the request returns: no later step changes it.
C15_OneRunOneResult ==
  [][\A r \in Reqs :
       /\ log'[r].runs <= 1
       /\ log'[r].started <= log'[r].runs
       /\ Staged(r)' => log'[r].runs = 1
       /\ (pc'[r] \in {"finally", "done"} /\ Staged(r)') =>
            resp'[r] = Response(req'[r].kind, RunCmd(proc'[r].outcome))
       /\ (resp[r] # NoResp /\ pc'[r] # "idle") => resp'[r] = resp[r]]_vars

\* A request whose subprocess exited with a non-zero code has returned that
\* one outcome after one launch.
C15_Witness ==
  \E r \in Reqs :
    /\ Returned(r) /\ Staged(r)
    /\ log[r].runs = 1 /\ log[r].started = 1
    /\ proc[r].state = "exited" /\ proc[r].outcome.rc = 2
    /\ resp[r].body.exit_code = 2

\* C16: a request calls rmtree at most once, never without having created a
\* workspace, and exactly once by the time it returns when it created one;
\* when that removal failed the request still returns the response it had:
\* the result of its run, or the internal error of a failed staging step.
C16_RemovalOnce ==
  \A r \in Reqs :
    /\ log[r].rmtrees <= 1
    /\ work[r] = NoWork => log[r].rmtrees = 0
    /\ (Returned(r) /\ work[r] # NoWork) => log[r].rmtrees = 1
    /\ pc[r] \in {"write1", "write2", "launch", "running", "finally"} =>
         log[r].rmtrees = 0
    /\ (Returned(r) /\ log[r].rmtrees = 1 /\ ~log[r].removed) =>
         resp[r] = IF log[r].fault # "none" THEN InternalError
                   ELSE Response(req[r].kind, RunCmd(proc[r].outcome))

\* A request has returned the result of its run although the removal of its
\* workspace failed and the directory is still there.
C16_Witness ==
  \E r \in Reqs :
    /\ Returned(r) /\ HasResult(r)
    /\ log[r].rmtrees = 1 /\ ~log[r].removed
    /\ work[r] \in DOMAIN disk
    /\ resp[r].body.exit_code = 0

\* C17: no step changes the server's environment, and a subprocess that is
\* started gets the server's variables other than HTTP_PROXY, HTTPS_PROXY,
\* http_proxy and https_proxy, each with the server's value, RUNNER_API_KEY
\* among them.
C17_ChildEnvironment ==
  [][/\ environ' = environ
     /\ \A r \in Reqs :
          (proc[r].state = "none" /\ proc'[r].state = "running") =>
            LET e == proc'[r].env
            IN  /\ DOMAIN e = (DOMAIN environ) \
                      {"HTTP_PROXY", "HTTPS_PROXY", "http_proxy", "https_proxy"}
                /\ \A v \in DOMAIN e : e[v] = environ[v]
                /\ "RUNNER_API_KEY" \in DOMAIN e
                /\ e["RUNNER_API_KEY"] = req[r].x_api_key]_vars

\* On a server with all four proxy variables set, a subprocess runs without
\* them and with the key, PATH and NO_PROXY.
C17_Witness ==
  \E r \in Reqs :
    /\ proc[r].state = "running"
    /\ {"HTTP_PROXY", "HTTPS_PROXY", "http_proxy", "https_proxy"} \subseteq DOMAIN environ
    /\ DOMAIN proc[r].env = {"RUNNER_API_KEY", "PATH", "NO_PROXY"}

\* C18: the subprocess of a run request is started with the request's stdin
\* text as its input, the empty input when stdin is null; the subprocess of a
\* test request is started with the empty input whatever the request holds.
C18_Stdin ==
  \A r \in Reqs :
    log[r].started = 1 =>
      proc[r].input = IF req[r].kind = "run" /\ req[r].stdin # None
                      THEN req[r].stdin
                      ELSE <<>>

\* pytest runs with the empty input for a test request that carries stdin.
C18_Witness ==
  \E r \in Reqs :
    /\ req[r].kind = "test" /\ req[r].stdin = Key("i")
    /\ proc[r].state = "running"
    /\ proc[r].cmd[1] = "pytest"
    /\ proc[r].input = <<>>

\* No workspace, no file, no _run_cmd call and no subprocess for request r,
\* the only request of the run.
NoSideEffect(r) ==
  /\ work[r] = NoWork
  /\ proc[r] = NoProc
  /\ log[r] = NoLog
  /\ disk = <<>>

\* C19: a /run or /test request on a server without a secret, or whose header
\* is not the secret, is answered 503 or 401 and has no side effect, oversized
\* or not; /ping is answered 200 whatever the header and the secret, and has
\* no side effect either.
C19_RejectedNoSideEffect ==
  \A r \in Reqs :
    /\ (Handled(r) /\ (Secret = <<>> \/ req[r].x_api_key # Secret)) =>
          /\ Returned(r)
          /\ resp[r].status \in {401, 503}
          /\ NoSideEffect(r)
    /\ req[r].kind = "ping" =>
          /\ Returned(r)
          /\ resp[r].status = 200
          /\ NoSideEffect(r)

\* A request with oversized code and a wrong key was answered 401, not 413,
\* and nothing was created.
C19_Witness ==
  \E r \in Reqs :
    /\ Handled(r) /\ Returned(r) /\ Oversized(r)
    /\ Secret # <<>> /\ req[r].x_api_key = Key("x")
    /\ resp[r].status = 401
    /\ NoSideEffect(r)

====
